---- MODULE Spec2Model ----
(***************************************************************************)
(* A model of the HTTP server of src/src/main.rs: the argument parser, the *)
(* request parser (read_stream), the router (handle_request), the worker   *)
(* closure and the accept loop of main, over a byte-level view of the      *)
(* connections and a small filesystem.                                     *)
(*                                                                         *)
(* A byte is a token: a one-character string for an ASCII byte, and one of *)
(* the strings of HighBytes for a byte >= 0x80.  Text is a sequence of     *)
(* tokens.                                                                 *)
(***************************************************************************)
EXTENDS Integers, Sequences, FiniteSets, TLC

VARIABLES argv, directory, fs, conn, posted

vars == <<argv, directory, fs, conn, posted>>

(***************************************************************************)
(* Bytes and text.                                                         *)
(***************************************************************************)

\* str::as_bytes of an ASCII literal: one token per character.
Bytes(s) == [i \in 1..Len(s) |-> SubSeq(s, i, i)]

\* The bytes >= 0x80 of the model's alphabet: 0xC3 0xA9 is the UTF-8
\* encoding of U+00E9; 0xFF occurs in no UTF-8 text.
HighBytes == {"0xC3", "0xA9", "0xFF"}
Utf8Lead2 == {"0xC3"}
Utf8Cont == {"0xA9"}

Min(S) == CHOOSE x \in S : \A y \in S : x <= y
Max(S) == CHOOSE x \in S : \A y \in S : x >= y

\* std::str::from_utf8(..).is_ok(), over the model's alphabet (ASCII,
\* two-byte sequences, and bytes that are never valid).
RECURSIVE Utf8Valid(_)
Utf8Valid(b) ==
    IF b = <<>> THEN TRUE
    ELSE IF Head(b) \notin HighBytes THEN Utf8Valid(Tail(b))
    ELSE IF Head(b) \in Utf8Lead2 /\ Len(b) >= 2 /\ b[2] \in Utf8Cont
         THEN Utf8Valid(Tail(Tail(b)))
    ELSE FALSE

\* The ASCII members of char::is_whitespace that a TLA+ string can hold.
WhiteSpace == {" ", "\t", "\n", "\r", "\f"}

\* str::trim
trim(s) ==
    LET keep == {i \in 1..Len(s) : s[i] \notin WhiteSpace}
    IN  IF keep = {} THEN <<>> ELSE SubSeq(s, Min(keep), Max(keep))

\* Option<T>
None == [some |-> FALSE, val |-> <<>>]
Some(v) == [some |-> TRUE, val |-> v]

\* str::strip_suffix
strip_suffix(s, suffix) ==
    IF Len(s) >= Len(suffix) /\ SubSeq(s, Len(s) - Len(suffix) + 1, Len(s)) = suffix
    THEN Some(SubSeq(s, 1, Len(s) - Len(suffix)))
    ELSE None

\* str::starts_with
starts_with(s, prefix) ==
    Len(s) >= Len(prefix) /\ SubSeq(s, 1, Len(prefix)) = prefix

\* str::strip_prefix(..).unwrap(), used only where starts_with holds
strip_prefix(s, prefix) == SubSeq(s, Len(prefix) + 1, Len(s))

\* str::splitn(2, sep).collect(): one component when sep does not occur,
\* else the text before the first sep and the text after it.
splitn2(s, sep) ==
    LET at == {i \in 1..Len(s) : s[i] = sep}
    IN  IF at = {} THEN <<s>>
        ELSE <<SubSeq(s, 1, Min(at) - 1), SubSeq(s, Min(at) + 1, Len(s))>>

Digits == Bytes("0123456789")
DigitVal(t) == (CHOOSE i \in 1..10 : Digits[i] = t) - 1

\* usize's Display, as format!("{0}", n) prints it
RECURSIVE ToDec(_)
ToDec(n) ==
    IF n < 10 THEN <<Digits[n + 1]>>
    ELSE ToDec(n \div 10) \o <<Digits[(n % 10) + 1]>>

RECURSIVE DecValue(_)
DecValue(ds) ==
    IF ds = <<>> THEN 0
    ELSE 10 * DecValue(SubSeq(ds, 1, Len(ds) - 1)) + DigitVal(ds[Len(ds)])

\* str::parse::<usize>(): an optional leading '+', then one or more decimal
\* digits; no '-', no blanks.  (Values of the model stay far below
\* usize::MAX, so the overflow error is not reachable here.)
parse_usize(s) ==
    LET ds == IF s # <<>> /\ s[1] = "+" THEN Tail(s) ELSE s
    IN  IF ds # <<>> /\ \A i \in 1..Len(ds) : \E j \in 1..10 : Digits[j] = ds[i]
        THEN Some(DecValue(ds))
        ELSE None

(***************************************************************************)
(* The request parser: main.rs lines 27-159.                               *)
(***************************************************************************)

\* Result<T>: tag is "ok", "err" (with the error's kind) or "block" (the
\* read waits for bytes the client has not sent and may never send).
Ok(v) == [tag |-> "ok", val |-> v, kind |-> "none"]
Err(k) == [tag |-> "err", val |-> <<>>, kind |-> k]
Block == [tag |-> "block", val |-> <<>>, kind |-> "none"]

\* Verb::try_from with a catch-all arm that answers Ok: any method is a GET.
Verb_try_from_lenient(value) ==
    IF value = Bytes("POST") THEN Ok("Post") ELSE Ok("Get")

\* Verb::try_from
Verb_try_from(value) ==
    IF value = Bytes("GET") THEN Ok("Get")
    ELSE IF value = Bytes("POST") THEN Ok("Post")
    ELSE Err("UnknownVerb")

\* StartLine::try_from
StartLine_try_from(value) ==
    LET stripped == strip_suffix(value, Bytes("HTTP/1.1\r\n"))
    IN  IF ~stripped.some THEN Err("BadStartLine")
        ELSE LET components == splitn2(trim(stripped.val), " ")
             IN  IF Len(components) # 2 THEN Err("BadStartLine")
                 ELSE LET verb == Verb_try_from(components[1])
                      IN  IF verb.tag # "ok" THEN verb
                          ELSE Ok([verb |-> verb.val, path |-> components[2]])

\* Header::is_header that holds for every line but the blank one.
Header_is_header_nonblank(line) == trim(line) # <<>>

\* Header::is_header
Header_is_header(line) == Len(splitn2(line, ":")) = 2

\* Header::try_from, called only on lines for which is_header holds
Header_try_from(value) ==
    LET components == splitn2(value, ":")
    IN  IF Len(components) # 2 THEN Err("BadHeader")
        ELSE Ok([key |-> trim(components[1]), value |-> trim(components[2])])

\* Headers::get with the last insertion winning the lookup.
Headers_get_last(headers, key) ==
    LET hit == {i \in 1..Len(headers) : headers[i].key = key}
    IN  IF hit = {} THEN None ELSE Some(headers[Max(hit)].value)

\* Headers::get: the value of the first header whose key is `key`
Headers_get(headers, key) ==
    LET hit == {i \in 1..Len(headers) : headers[i].key = key}
    IN  IF hit = {} THEN None ELSE Some(headers[Min(hit)].value)

\* BufRead::read_line on the bytes not yet consumed, data[pos..]: the bytes
\* up to and including the first LF; at end of stream whatever is left (an
\* empty line when nothing is); an error when they are not UTF-8.
read_line(data, pos, eof) ==
    LET nl == {i \in pos..Len(data) : data[i] = "\n"}
        upto == IF nl # {} THEN Min(nl) ELSE Len(data)
        line == SubSeq(data, pos, upto)
    IN  IF nl = {} /\ ~eof THEN Block
        ELSE IF ~Utf8Valid(line) THEN Err("InvalidData")
        ELSE Ok([line |-> line, pos |-> upto + 1])

\* A read that takes every byte the client has sent (read_to_end) in place
\* of read_exact.
read_exact_rest(data, pos, eof, size) ==
    IF pos + size - 1 <= Len(data)
    THEN Ok([bytes |-> SubSeq(data, pos, Len(data)), pos |-> Len(data) + 1])
    ELSE IF eof THEN Err("UnexpectedEof")
    ELSE Block

\* Read::read_exact of `size` bytes
read_exact(data, pos, eof, size) ==
    IF pos + size - 1 <= Len(data)
    THEN Ok([bytes |-> SubSeq(data, pos, pos + size - 1), pos |-> pos + size])
    ELSE IF eof THEN Err("UnexpectedEof")
    ELSE Block

\* The header loop of read_stream (lines 134-145)
RECURSIVE read_headers(_, _, _, _)
read_headers(data, pos, eof, headers) ==
    LET l == read_line(data, pos, eof)
    IN  IF l.tag # "ok" THEN l
        ELSE IF Header_is_header(l.val.line)
        THEN LET h == Header_try_from(l.val.line)
             IN  IF h.tag # "ok" THEN h
                 ELSE read_headers(data, l.val.pos, eof, Append(headers, h.val))
        ELSE Ok([headers |-> headers, pos |-> l.val.pos])

\* read_stream: the Request (start line, headers, Option<Body>) read from
\* the bytes `data` the client has sent, `eof` telling whether the client
\* has ended its side of the stream.
read_stream(data, eof) ==
    LET first == read_line(data, 1, eof)
    IN  IF first.tag # "ok" THEN first
        ELSE
        LET start_line == StartLine_try_from(first.val.line)
        IN  IF start_line.tag # "ok" THEN start_line
            ELSE
            LET hs == read_headers(data, first.val.pos, eof, <<>>)
            IN  IF hs.tag # "ok" THEN hs
                ELSE
                LET content_length == Headers_get(hs.val.headers, Bytes("Content-Length"))
                    size == parse_usize(content_length.val)
                    body == read_exact(data, hs.val.pos, eof, size.val)
                IN  IF ~content_length.some
                    THEN Ok([verb |-> start_line.val.verb, path |-> start_line.val.path,
                             headers |-> hs.val.headers, body |-> None,
                             consumed |-> hs.val.pos - 1])
                    ELSE IF ~size.some THEN Err("ParseInt")
                    ELSE IF body.tag # "ok" THEN body
                    ELSE Ok([verb |-> start_line.val.verb, path |-> start_line.val.path,
                             headers |-> hs.val.headers, body |-> Some(body.val.bytes),
                             consumed |-> body.val.pos - 1])

(***************************************************************************)
(* Configuration: main.rs lines 201-224.                                   *)
(***************************************************************************)

\* PathBuf::from
PathBuf_from(s) == Bytes(s)

\* The while loop of Args::new over the arguments after the program name,
\* `dir` being args.directory so far.
RECURSIVE Args_loop(_, _)
Args_loop(args, dir) ==
    IF args = <<>> THEN dir
    ELSE IF Head(args) = "--directory"
    THEN IF Len(args) >= 2
         THEN Args_loop(Tail(Tail(args)), Some(PathBuf_from(args[2])))
         ELSE None
    ELSE Args_loop(Tail(args), dir)

\* Args::new
Args_new(args) == Args_loop(args, None)

(***************************************************************************)
(* The filesystem: a function from the paths that exist to what is there.  *)
(***************************************************************************)

DirEntry == [kind |-> "dir", data |-> <<>>]
FileEntry(data) == [kind |-> "file", data |-> data]

\* PathBuf::join: an absolute `name` replaces the base; an empty one names
\* the base itself.
Path_join(base, name) ==
    IF name = <<>> THEN base
    ELSE IF name[1] = "/" THEN name
    ELSE base \o <<"/">> \o name

\* The directory a path lies in.
Path_parent(path) ==
    LET at == {i \in 1..Len(path) : path[i] = "/"}
    IN  IF at = {} THEN <<>> ELSE SubSeq(path, 1, Max(at) - 1)

\* std::fs::metadata(path).is_ok()
fs_exists(files, path) == path \in DOMAIN files

\* OpenOptions::new().write(true).create(true).open: File::create without
\* the truncation.
File_create_keep(files, path) ==
    IF fs_exists(files, path) /\ files[path].kind = "dir" THEN Err("IsADirectory")
    ELSE IF ~fs_exists(files, Path_parent(path)) THEN Err("NotFound")
    ELSE IF files[Path_parent(path)].kind # "dir" THEN Err("NotADirectory")
    ELSE Ok(files @@ (path :> FileEntry(<<>>)))

\* File::create: creates the file or truncates the one there; fails on a
\* directory and where the parent is no directory.
File_create(files, path) ==
    IF fs_exists(files, path) /\ files[path].kind = "dir" THEN Err("IsADirectory")
    ELSE IF ~fs_exists(files, Path_parent(path)) THEN Err("NotFound")
    ELSE IF files[Path_parent(path)].kind # "dir" THEN Err("NotADirectory")
    ELSE Ok((path :> FileEntry(<<>>)) @@ files)

\* A write that replaces the whole file (std::fs::write) in place of the
\* write_all through the handle.
File_write_all_replace(files, path, bytes) == (path :> FileEntry(bytes)) @@ files

\* File::write_all through a handle File::create returned: the handle's
\* offset starts at 0, so the bytes overlay the start of whatever the file
\* holds by then.
File_write_all(files, path, bytes) ==
    LET old == files[path].data
    IN  (path :> FileEntry(bytes \o SubSeq(old, Len(bytes) + 1, Len(old)))) @@ files

\* std::fs::read_to_string
read_to_string(files, path) ==
    IF ~fs_exists(files, path) THEN Err("NotFound")
    ELSE IF files[path].kind = "dir" THEN Err("IsADirectory")
    ELSE IF ~Utf8Valid(files[path].data) THEN Err("InvalidData")
    ELSE Ok(files[path].data)

(***************************************************************************)
(* The router: handle_request, main.rs lines 161-199.                      *)
(***************************************************************************)

CRLF == Bytes("\r\n")

R200 == Bytes("HTTP/1.1 200 OK\r\n\r\n200 OK")
R201 == Bytes("HTTP/1.1 201 Created\r\n\r\n201 Created")
R404 == Bytes("HTTP/1.1 404 Not Found\r\n\r\n404 Not Found")
R500 == Bytes("HTTP/1.1 500 Internal Server Error\r\n\r\n500 Internal Server Error")

\* The format! of lines 168, 185 and 192.
Format200(content_type, body) ==
    Bytes("HTTP/1.1 200 OK\r\nContent-Type: ") \o Bytes(content_type)
        \o Bytes("\r\nContent-Length: ") \o ToDec(Len(body)) \o CRLF \o CRLF \o body

\* What the match of handle_request comes to for a parsed request:
\*   "respond"  Ok(response)
\*   "err"      Err, from a `?`
\*   "panic"    an unwrap() of None
\*   "create"   the POST arm up to File::create(file_path), the write of
\*              body to path still to come
\* and `files`, the filesystem it leaves.
Outcome(kind, route, response, path, body, files) ==
    [kind |-> kind, route |-> route, response |-> response, path |-> path,
     body |-> body, files |-> files]

\* The guards of the match arms, lines 166, 170, 179, 190 and 194.
ArmEcho(rq, opts) == rq.verb = "Get" /\ starts_with(rq.path, Bytes("/echo/"))
\* The guard of line 170 with any Option<Body> where the pattern has
\* Some(body): a POST without a body writes an empty file.
ArmPostFiles_AnyBody(rq, opts) ==
    rq.verb = "Post" /\ starts_with(rq.path, Bytes("/files/"))
ArmPostFiles(rq, opts) ==
    rq.verb = "Post" /\ rq.body.some /\ starts_with(rq.path, Bytes("/files/"))
ArmGetFiles(rq, opts) ==
    rq.verb = "Get" /\ opts.some /\ starts_with(rq.path, Bytes("/files/"))
ArmUserAgent(rq, opts) == rq.verb = "Get" /\ rq.path = Bytes("/user-agent")
\* The guard of line 194 with the verb left out of the pattern.
ArmRoot_AnyVerb(rq, opts) == rq.path = Bytes("/")
ArmRoot(rq, opts) == rq.verb = "Get" /\ rq.path = Bytes("/")

\* The arm of line 166
EchoArm(rq, files) ==
    Outcome("respond", "echo",
            Format200("text/plain", strip_prefix(rq.path, Bytes("/echo/"))), <<>>, <<>>, files)

\* The arm of line 170, up to File::create.  `let file_path = ..` computes
\* the path once: the CHOOSE binds its value, and `create` is the rest of the
\* arm at that value.
PostFilesArm(rq, opts, files) ==
    LET file_name == strip_prefix(rq.path, Bytes("/files/"))
        create(file_path) ==
            LET created == File_create(files, file_path)
            IN  IF created.tag # "ok"
                THEN Outcome("err", "post_files", <<>>, <<>>, <<>>, files)
                ELSE Outcome("create", "post_files", R201, file_path, rq.body.val,
                             created.val)
    IN  IF ~opts.some THEN Outcome("panic", "post_files", <<>>, <<>>, <<>>, files)
        ELSE CHOOSE o \in {create(p) : p \in {Path_join(opts.val, file_name)}} : TRUE

\* The arm of line 179 without its match on metadata: a missing file is an
\* error of read_to_string.
GetFilesArm_NoStat(rq, opts, files) ==
    LET file_name == strip_prefix(rq.path, Bytes("/files/"))
        file_path == Path_join(opts.val, file_name)
        contents == read_to_string(files, file_path)
    IN  IF contents.tag # "ok" THEN Outcome("err", "get_files", <<>>, <<>>, <<>>, files)
        ELSE Outcome("respond", "get_files",
                     Format200("application/octet-stream", contents.val), <<>>, <<>>, files)

\* The arm of line 179, file_path bound as in the arm of line 170.
GetFilesArm(rq, opts, files) ==
    LET file_name == strip_prefix(rq.path, Bytes("/files/"))
        serve(file_path) ==
            LET contents == read_to_string(files, file_path)
            IN  IF ~fs_exists(files, file_path)
                THEN Outcome("respond", "get_files", R404, <<>>, <<>>, files)
                ELSE IF contents.tag # "ok"
                THEN Outcome("err", "get_files", <<>>, <<>>, <<>>, files)
                ELSE Outcome("respond", "get_files",
                             Format200("application/octet-stream", contents.val),
                             <<>>, <<>>, files)
    IN  CHOOSE o \in {serve(p) : p \in {Path_join(opts.val, file_name)}} : TRUE

\* The arm of line 190
UserAgentArm(rq, files) ==
    LET user_agent == Headers_get(rq.headers, Bytes("User-Agent"))
    IN  IF ~user_agent.some THEN Outcome("panic", "user_agent", <<>>, <<>>, <<>>, files)
        ELSE Outcome("respond", "user_agent",
                     Format200("text/plain", user_agent.val), <<>>, <<>>, files)

\* The match of handle_request (lines 165-196): the first arm whose guard
\* holds.
dispatch(rq, opts, files) ==
    IF ArmEcho(rq, opts) THEN EchoArm(rq, files)
    ELSE IF ArmPostFiles(rq, opts) THEN PostFilesArm(rq, opts, files)
    ELSE IF ArmGetFiles(rq, opts) THEN GetFilesArm(rq, opts, files)
    ELSE IF ArmUserAgent(rq, opts) THEN UserAgentArm(rq, files)
    ELSE IF ArmRoot(rq, opts) THEN Outcome("respond", "root", R200, <<>>, <<>>, files)
    ELSE Outcome("respond", "not_found", R404, <<>>, <<>>, files)

\* handle_request, `read` being what its read_stream(&mut stream) returned:
\* the `?` of line 162 returns the error of a failed read, and no arm runs.
handle_request(read, opts, files) ==
    IF read.tag # "ok" THEN Outcome("err", "none", <<>>, <<>>, <<>>, files)
    ELSE dispatch(read.val, opts, files)

(***************************************************************************)
(* Bounds and the inputs drawn from them.                                  *)
(***************************************************************************)

\* Connections that can be open at the same time.
NumConns == 2
\* Longest text after /echo/ a client asks for.
MaxEchoLen == 2
\* Longest body a client posts.
MaxBodyLen == 2

Conns == 1..NumConns

\* All sequences over `alphabet` of length at most n.
SeqsUpTo(alphabet, n) == UNION {[1..k -> alphabet] : k \in 0..n}

\* Printable ASCII, the space included.
EchoAlphabet == {"a", " ", "%"}
EchoStrings == SeqsUpTo(EchoAlphabet, MaxEchoLen)

\* Arbitrary bytes: ASCII and a byte no UTF-8 text holds.
BodyAlphabet == {"a", "0xFF"}
Bodies == SeqsUpTo(BodyAlphabet, MaxBodyLen)

FileNames == {Bytes("x"), Bytes("y")}

\* The command lines the server is started with (std::env::args().skip(1)).
ArgLists ==
    { <<>>,
      <<"--directory", "/tmp">>,
      <<"-d", "/tmp">>,
      <<"--directory", "/tmp", "--verbose">> }

\* A request: a start line, header lines, the blank line, the bytes after it.
Line(s) == Bytes(s) \o CRLF
EchoRequest(s) == Bytes("GET /echo/") \o s \o Bytes(" HTTP/1.1\r\n\r\n")
PostRequest(name, body) ==
    Bytes("POST /files/") \o name \o Bytes(" HTTP/1.1\r\nContent-Length: ")
        \o ToDec(Len(body)) \o CRLF \o CRLF \o body
GetFileRequest(name) == Bytes("GET /files/") \o name \o Bytes(" HTTP/1.1\r\n\r\n")

RouteMethods == {"GET", "POST"}
RoutePaths ==
    {"/", "/echo", "/echo/a", "/files", "/files/", "/files/x", "/user-agent",
     "/user-agent/x", "/nope"}
\* What follows the start line: nothing but the blank line, or a one-byte body.
RouteRests == {Bytes("\r\n"), Bytes("Content-Length: 1\r\n\r\na")}
RoutingRequests ==
    {Bytes(m) \o Bytes(" ") \o Bytes(p) \o Bytes(" HTTP/1.1\r\n") \o rest :
        m \in RouteMethods, p \in RoutePaths, rest \in RouteRests}

StartLineRequests ==
    { Bytes("GET / HTTP/1.0\r\n\r\n"),
      Bytes("GET /\r\n\r\n"),
      Bytes("GET /HTTP/1.1\r\n\r\n"),
      Bytes("GET /echo/aHTTP/1.1\r\n\r\n"),
      Bytes("GET HTTP/1.1\r\n\r\n"),
      Bytes(" HTTP/1.1\r\n\r\n"),
      Bytes("PUT / HTTP/1.1\r\n\r\n"),
      Bytes("get / HTTP/1.1\r\n\r\n"),
      Bytes("GET  / HTTP/1.1\r\n\r\n"),
      Bytes("GET / HTTP/1.1\n\r\n"),
      Bytes("GET / HTTP/1.1\r\n\r\nGET /nope HTTP/1.1\r\n\r\n"),
      Bytes("GET / HT"),
      <<>> }

ContentLengthValues == {"abc", "-1", "+1", "", "1a", "01", "1 1"}
ContentLengthRequests ==
    {Bytes("POST /files/x HTTP/1.1\r\nContent-Length: ") \o Bytes(v) \o Bytes("\r\n\r\na") :
        v \in ContentLengthValues}
    \cup
    { Bytes("POST /files/x HTTP/1.1\r\nContent-Length: 1\r\n\r\naa"),
      Bytes("POST /files/x HTTP/1.1\r\nContent-Length: 2\r\n\r\na"),
      Bytes("POST /files/x HTTP/1.1\r\nContent-Length: 1\r\nContent-Length: 2\r\n\r\naa"),
      Bytes("POST /files/x HTTP/1.1\r\ncontent-length: 1\r\n\r\na"),
      Bytes("GET /files/x HTTP/1.1\r\nContent-Length: abc\r\n\r\n"),
      Bytes("GET /echo/a HTTP/1.1\r\nContent-Length: -1\r\n\r\n") }

HeaderBlocks ==
    { "User-Agent: foo\r\n\r\n",
      "User-Agent:   foo \r\n\r\n",
      "User-Agent:foo\r\n\r\n",
      "Host: x\r\nUser-Agent: a:b\r\n\r\n",
      "User-Agent: a\r\nUser-Agent: b\r\n\r\n",
      "user-agent: foo\r\n\r\n",
      "Host: x\r\n\r\n",
      "User-Agent:\r\n\r\n",
      ": foo\r\n\r\n",
      "junk\r\nUser-Agent: foo\r\n\r\n",
      "User-Agent: foo\r\n",
      "User-Agent: foo",
      "" }
HeaderRequests ==
    {Bytes("GET /user-agent HTTP/1.1\r\n") \o Bytes(h) : h \in HeaderBlocks}
    \cup
    { Bytes("POST /files/x HTTP/1.1\r\njunk\r\nContent-Length: 1\r\n\r\na"),
      Bytes("POST /files/x HTTP/1.1\r\nContent-Length: 1\r\njunk\r\na"),
      Bytes("GET / HTTP/1.1\r\nHost: ") \o <<"0xFF">> \o Bytes("\r\n\r\n") }

\* The requests of the clients of SpecSeq, which come one at a time.
SeqRequests ==
    {EchoRequest(s) : s \in EchoStrings}
    \cup {PostRequest(n, b) : n \in FileNames, b \in Bodies}
    \cup {GetFileRequest(n) : n \in FileNames}
    \cup RoutingRequests \cup StartLineRequests \cup ContentLengthRequests
    \cup HeaderRequests

\* The requests of the clients of Spec, which come concurrently.
Requests ==
    { PostRequest(Bytes("x"), Bytes("aa")),
      PostRequest(Bytes("x"), <<"0xFF">>),
      GetFileRequest(Bytes("x")),
      Bytes("GET /user-agent HTTP/1.1\r\n\r\n"),
      Bytes("GET / HTTP/1.0\r\n\r\n"),
      Bytes("GET / HTTP/1.1\r\n\r\nGET /nope HTTP/1.1\r\n\r\n"),
      Bytes("GET / HTTP/1.1\r\nHost: x") }

(***************************************************************************)
(* The server: main, lines 226-259, and its clients.                       *)
(*                                                                         *)
(* conn[c] is a connection slot:                                           *)
(*   st      "free", "pending" (the client has connected and sent inbuf),  *)
(*           "spawned" (accepted, its worker about to read), "created"     *)
(*           (its worker between File::create and write_all), "respond"    *)
(*           (handle_request has returned), "closed"                       *)
(*   inbuf   the bytes the client has sent; eof: it has ended its stream   *)
(*   out     the bytes the server has written to the connection            *)
(*   result  what handle_request came to: "ok", "err", "panic"; "refused"  *)
(*           for a connection whose accept failed                          *)
(*   route   the match arm that ran; resp: the Ok value of handle_request  *)
(*   path, body   the file being written by the POST arm                   *)
(*   nread, nresp   calls of read_stream and of write_all(response)        *)
(*                                                                         *)
(* posted is a history variable no action reads: for each path, the body   *)
(* of the latest POST to it that was answered 201 Created.                 *)
(***************************************************************************)

FreeConn ==
    [st |-> "free", inbuf |-> <<>>, eof |-> FALSE, out |-> <<>>,
     result |-> "none", route |-> "none", resp |-> <<>>,
     path |-> <<>>, body |-> <<>>, nread |-> 0, nresp |-> 0]

\* The state once main has parsed its arguments and bound the listener
\* (lines 230-233): the configured directory exists and is empty.
Init ==
    /\ argv \in ArgLists
    /\ directory = Args_new(argv)
    /\ fs = (Bytes("/tmp") :> DirEntry)
    /\ conn = [c \in Conns |-> FreeConn]
    /\ posted = <<>>

\* read_stream on each request a client can send, computed once.
ReadTable ==
    [r \in Requests \cup SeqRequests, eof \in BOOLEAN |-> read_stream(r, eof)]

\* A client connects and sends the bytes of r.
Connect(c, reqs) ==
    /\ conn[c].st = "free"
    /\ \E r \in reqs :
          conn' = [conn EXCEPT ![c] = [FreeConn EXCEPT !.st = "pending", !.inbuf = r]]
    /\ UNCHANGED <<argv, directory, fs, posted>>

\* A client ends its side of the stream: the server's reads see end of file
\* after the bytes of inbuf.  Only a client whose bytes leave read_stream
\* waiting is modelled doing so: read_stream never looks for the end of a
\* stream that holds a whole request.
ClientShutdown(c) ==
    /\ conn[c].st \in {"pending", "spawned"}
    /\ ~conn[c].eof
    /\ ReadTable[conn[c].inbuf, FALSE].tag = "block"
    /\ conn' = [conn EXCEPT ![c].eof = TRUE]
    /\ UNCHANGED <<argv, directory, fs, posted>>

\* The accept loop with handle_request called in the loop itself: the next
\* connection is taken only once no worker is left.
AcceptsWhile_Inline(workers) == workers = {}

\* Whether the accept loop takes the next connection while `workers` are
\* the connections whose worker has not finished: it always does, each
\* worker running on a thread of its own (line 239).
AcceptsWhile(workers) == TRUE

\* The accept loop, Ok arm (lines 235-251): the connection gets a worker.
Accept(c) ==
    /\ conn[c].st = "pending"
    /\ AcceptsWhile({d \in Conns : conn[d].st \in {"spawned", "created", "respond"}})
    /\ conn' = [conn EXCEPT ![c].st = "spawned"]
    /\ UNCHANGED <<argv, directory, fs, posted>>

\* The accept loop, Err arm (lines 252-254): the error is printed and the
\* loop goes on; the connection never gets a worker.
AcceptError(c) ==
    /\ conn[c].st = "pending"
    /\ conn' = [conn EXCEPT ![c].st = "closed", ![c].result = "refused"]
    /\ UNCHANGED <<argv, directory, fs, posted>>

\* A POST arm that returns Ok("201 Created") once the file is created,
\* without the write of the body.
AfterHandle_RespondFirst(k, o) ==
    [k EXCEPT !.st = CASE o.kind = "panic" -> "closed"
                     [] OTHER -> "respond",
              !.result = CASE o.kind \in {"respond", "create"} -> "ok"
                         [] OTHER -> o.kind,
              !.route = o.route, !.resp = o.response,
              !.path = o.path, !.body = o.body, !.nread = @ + 1]

\* The worker's connection k once handle_request has come to o.
AfterHandle(k, o) ==
    [k EXCEPT !.st = CASE o.kind = "panic" -> "closed"
                     [] o.kind = "create" -> "created"
                     [] OTHER -> "respond",
              !.result = CASE o.kind = "respond" -> "ok"
                         [] o.kind = "create" -> "none"
                         [] OTHER -> o.kind,
              !.route = o.route, !.resp = o.response,
              !.path = o.path, !.body = o.body, !.nread = @ + 1]

\* The worker's call of handle_request (line 240), up to its return or, in
\* the POST arm, up to File::create.  It waits while read_stream waits.
HandleRequest(c) ==
    /\ conn[c].st = "spawned"
    /\ \E read \in {ReadTable[conn[c].inbuf, conn[c].eof]} :
          /\ read.tag # "block"
          /\ \E o \in {handle_request(read, directory, fs)} :
                /\ conn' = [conn EXCEPT ![c] = AfterHandle(conn[c], o)]
                /\ fs' = o.files
    /\ UNCHANGED <<argv, directory, posted>>

\* The rest of the POST arm (lines 174-177): write_all, then Ok("201 ...").
FileWrite(c) ==
    /\ conn[c].st = "created"
    /\ fs' = File_write_all(fs, conn[c].path, conn[c].body)
    /\ conn' = [conn EXCEPT ![c].st = "respond", ![c].result = "ok"]
    /\ UNCHANGED <<argv, directory, posted>>

\* A worker that goes back to reading after its response (keep-alive).
AfterResponse_KeepAlive == "spawned"

\* The state a worker's connection is in once the worker has written its
\* response: the closure ends and drops the stream (line 250).
AfterResponse == "closed"

\* The worker's match on what handle_request returned (lines 240-249): one
\* write_all, of the response or of the 500 text, and the stream is dropped.
WorkerRespond(c) ==
    /\ conn[c].st = "respond"
    /\ conn' = [conn EXCEPT ![c].st = AfterResponse,
                            ![c].out = @ \o (IF conn[c].result = "ok"
                                             THEN conn[c].resp ELSE R500),
                            ![c].nresp = @ + 1]
    /\ posted' = IF conn[c].result = "ok" /\ conn[c].route = "post_files"
                 THEN (conn[c].path :> conn[c].body) @@ posted
                 ELSE posted
    /\ UNCHANGED <<argv, directory, fs>>

\* A closed connection is forgotten; its slot serves a later connection.
Release(c) ==
    /\ conn[c].st = "closed"
    /\ conn' = [conn EXCEPT ![c] = FreeConn]
    /\ UNCHANGED <<argv, directory, fs, posted>>

\* The server with concurrent clients.
Next ==
    \E c \in Conns :
        \/ Connect(c, Requests)
        \/ ClientShutdown(c)
        \/ Accept(c)
        \/ AcceptError(c)
        \/ HandleRequest(c)
        \/ FileWrite(c)
        \/ WorkerRespond(c)
        \/ Release(c)

Spec == Init /\ [][Next]_vars

\* The server with clients that come one at a time: every connection is
\* closed before the next is made.
NextSeq ==
    \/ Connect(1, SeqRequests) /\ \A d \in Conns : conn[d].st = "free"
    \/ ClientShutdown(1)
    \/ Accept(1)
    \/ AcceptError(1)
    \/ HandleRequest(1)
    \/ FileWrite(1)
    \/ WorkerRespond(1)
    \/ Release(1)

SpecSeq == Init /\ [][NextSeq]_vars

\* The server with clients of which one, once, posts two bytes to x, the
\* others asking for x or stalling: no other POST to that name is ever sent.
NextOnePost ==
    \E c \in Conns :
        \/ /\ Connect(c, {PostRequest(Bytes("x"), Bytes("aa"))})
           /\ Bytes("/tmp/x") \notin DOMAIN fs
           /\ \A d \in Conns : conn[d].inbuf # PostRequest(Bytes("x"), Bytes("aa"))
        \/ Connect(c, {GetFileRequest(Bytes("x")), Bytes("GET / HTTP/1.1\r\nHost: x")})
        \/ ClientShutdown(c)
        \/ Accept(c)
        \/ AcceptError(c)
        \/ HandleRequest(c)
        \/ FileWrite(c)
        \/ WorkerRespond(c)
        \/ Release(c)

SpecOnePost == Init /\ [][NextOnePost]_vars

(***************************************************************************)
(* What the claims speak of.                                               *)
(***************************************************************************)

\* A connection the server has finished with, its accept having succeeded.
Handled(c) == conn[c].st = "closed" /\ conn[c].result # "refused"

\* The request the worker of a finished connection read.
Parsed(c) == read_stream(conn[c].inbuf, conn[c].eof)

\* 200 OK with a Content-Type, the Content-Length of the body, the body.
Expect200(content_type, body) ==
    Bytes("HTTP/1.1 200 OK\r\nContent-Type: ") \o Bytes(content_type)
        \o Bytes("\r\nContent-Length: ") \o ToDec(Len(body)) \o Bytes("\r\n\r\n") \o body

Expect404 == Bytes("HTTP/1.1 404 Not Found\r\n\r\n404 Not Found")
Expect500 ==
    Bytes("HTTP/1.1 500 Internal Server Error\r\n\r\n500 Internal Server Error")

TmpDir == Bytes("/tmp")
FilePath(name) == TmpDir \o <<"/">> \o name

\* C1: for every string s of printable ASCII (the space included), the
\* request GET /echo/<s> HTTP/1.1 is answered 200 OK, text/plain, with the
\* body s and the Content-Length |s|.
C1_EchoRoundTrip ==
    \A c \in Conns : \A s \in EchoStrings :
        Handled(c) /\ conn[c].inbuf = EchoRequest(s)
            => conn[c].out = Expect200("text/plain", s)

\* C2: with a directory configured, a POST /files/<name> carrying any bytes
\* B is answered 201 Created, and a following GET /files/<name> on a fresh
\* connection is answered 200 OK, application/octet-stream, with
\* Content-Length |B| and the body B.
C2_PostThenGet ==
    \A c \in Conns : \A n \in FileNames :
        Handled(c) /\ directory.some
            => /\ \A b \in Bodies :
                    conn[c].inbuf = PostRequest(n, b)
                        => conn[c].out = Bytes("HTTP/1.1 201 Created\r\n\r\n201 Created")
               /\ conn[c].inbuf = GetFileRequest(n) /\ FilePath(n) \in DOMAIN posted
                    => conn[c].out =
                          Expect200("application/octet-stream", posted[FilePath(n)])

\* C3: started without a directory, the server answers every request to a
\* path with the prefix /files/, GET or POST with a body, with 404 Not Found.
C3_NoDirectory404 ==
    \A c \in Conns : \A n \in FileNames :
        Handled(c) /\ ~directory.some
            /\ (conn[c].inbuf = GetFileRequest(n)
                  \/ \E b \in Bodies : conn[c].inbuf = PostRequest(n, b))
            => conn[c].out = Expect404

\* C4: a GET /user-agent whose header block holds no header named exactly
\* User-Agent is answered with the 500 Internal Server Error response.
C4_MissingUserAgent500 ==
    \A c \in Conns :
        Handled(c) /\ Parsed(c).tag = "ok"
            /\ Parsed(c).val.verb = "Get" /\ Parsed(c).val.path = Bytes("/user-agent")
            /\ (\A i \in 1..Len(Parsed(c).val.headers) :
                    Parsed(c).val.headers[i].key # Bytes("User-Agent"))
            => conn[c].out = Expect500

\* C5: with a directory configured, a GET /files/<name> for which nothing
\* exists at directory/<name> is answered with exactly the 404 Not Found
\* response, whatever was handled before, and is no error of the worker.
C5_MissingFile404 ==
    \A c \in Conns :
        Handled(c) /\ directory.some /\ Parsed(c).tag = "ok"
            /\ Parsed(c).val.verb = "Get"
            /\ Len(Parsed(c).val.path) >= 7
            /\ SubSeq(Parsed(c).val.path, 1, 7) = Bytes("/files/")
            /\ (LET name == SubSeq(Parsed(c).val.path, 8, Len(Parsed(c).val.path))
                IN  Path_join(directory.val, name) \notin DOMAIN fs)
            => conn[c].out = Expect404 /\ conn[c].result = "ok"

\* C5's case: files have been posted before, one of them not UTF-8, and a
\* GET for a name that does not exist got its 404.
C5_Witness ==
    \E c \in Conns :
        /\ Handled(c) /\ directory.some
        /\ conn[c].inbuf = GetFileRequest(Bytes("y"))
        /\ FilePath(Bytes("y")) \notin DOMAIN fs
        /\ FilePath(Bytes("x")) \in DOMAIN fs
        /\ fs[FilePath(Bytes("x"))].data = <<"0xFF">>
        /\ conn[c].out = Expect404

\* C6: a request that fails at parse time (a start line without the
\* HTTP/1.1 suffix or with fewer than two fields, a method other than GET
\* and POST, a Content-Length that is no non-negative decimal integer) is
\* answered with exactly the 500 response, and no route handler runs.
C6_BadRequests ==
    { Bytes("GET / HTTP/1.0\r\n\r\n"),
      Bytes("GET /\r\n\r\n"),
      Bytes("GET / HTTP/1.1\n\r\n"),
      Bytes("GET HTTP/1.1\r\n\r\n"),
      Bytes(" HTTP/1.1\r\n\r\n"),
      Bytes("PUT / HTTP/1.1\r\n\r\n"),
      Bytes("get / HTTP/1.1\r\n\r\n"),
      Bytes("POST /files/x HTTP/1.1\r\nContent-Length: abc\r\n\r\na"),
      Bytes("POST /files/x HTTP/1.1\r\nContent-Length: -1\r\n\r\na"),
      Bytes("POST /files/x HTTP/1.1\r\nContent-Length: \r\n\r\na"),
      Bytes("POST /files/x HTTP/1.1\r\nContent-Length: 1a\r\n\r\na"),
      Bytes("POST /files/x HTTP/1.1\r\nContent-Length: 1 1\r\n\r\na"),
      Bytes("GET /files/x HTTP/1.1\r\nContent-Length: abc\r\n\r\n"),
      Bytes("GET /echo/a HTTP/1.1\r\nContent-Length: -1\r\n\r\n") }
C6_ParseFailure500 ==
    \A c \in Conns :
        Handled(c)
            /\ (\/ conn[c].inbuf \in C6_BadRequests
                \/ Parsed(c).tag = "err"
                     /\ Parsed(c).kind \in {"BadStartLine", "UnknownVerb", "ParseInt"})
            => conn[c].out = Expect500 /\ conn[c].route = "none"

\* C6's case: with a directory configured, a POST with a Content-Length
\* that is no number got the 500 and wrote no file.
C6_Witness ==
    \E c \in Conns :
        /\ Handled(c) /\ directory.some
        /\ conn[c].inbuf = Bytes("POST /files/x HTTP/1.1\r\nContent-Length: abc\r\n\r\na")
        /\ conn[c].out = Expect500
        /\ FilePath(Bytes("x")) \notin DOMAIN fs

\* Two requests sent back to back on one connection.
Pipelined == Bytes("GET / HTTP/1.1\r\n\r\nGET /nope HTTP/1.1\r\n\r\n")

\* C7: on every connection the worker reads at most one request and writes
\* at most one response, the routed one or the 500 and never both, and the
\* connection is closed after it; a second request on the connection is
\* neither parsed nor answered.
C7_OneRequestOneResponse ==
    \A c \in Conns :
        /\ conn[c].nread <= 1
        /\ conn[c].nresp <= 1
        /\ conn[c].nresp = 0 => conn[c].out = <<>>
        /\ conn[c].nresp = 1 =>
              /\ conn[c].st = "closed"
              /\ conn[c].out = IF conn[c].result = "ok" THEN conn[c].resp ELSE Expect500
        /\ conn[c].inbuf = Pipelined =>
              conn[c].out \in {<<>>, Bytes("HTTP/1.1 200 OK\r\n\r\n200 OK")}

\* C7's case: the first of two pipelined requests has been answered and
\* the connection closed, while another connection is still being served.
C7_Witness ==
    \E c, d \in Conns :
        /\ Handled(c) /\ conn[c].inbuf = Pipelined
        /\ conn[c].nread = 1 /\ conn[c].nresp = 1
        /\ conn[c].out = Bytes("HTTP/1.1 200 OK\r\n\r\n200 OK")
        /\ conn[d].st = "respond"

\* A worker waiting for bytes its client has not sent.
Stalled(c) ==
    conn[c].st = "spawned" /\ ReadTable[conn[c].inbuf, conn[c].eof].tag = "block"

C9_ShortDirectoryFlag ==
    /\ (Len(argv) >= 2 /\ argv[1] \in {"-d", "--directory"})
          => directory = [some |-> TRUE, val |-> Bytes(argv[2])]
    /\ argv = <<"--directory", "/tmp", "--verbose">>
          => directory = [some |-> TRUE, val |-> Bytes("/tmp")]

\* C10: routing is first match over the table, /echo/ and /files/ matched
\* as prefixes with their slash, /user-agent and / exactly; a parsed
\* request that matches none of the five routes is answered with exactly
\* the 404 response.
C10_HasPrefix(path, prefix) ==
    Len(path) >= Len(prefix) /\ SubSeq(path, 1, Len(prefix)) = prefix
C10_MatchesRoute(rq) ==
    \/ rq.verb = "Get" /\ C10_HasPrefix(rq.path, Bytes("/echo/"))
    \/ rq.verb = "Post" /\ C10_HasPrefix(rq.path, Bytes("/files/")) /\ rq.body.some
    \/ rq.verb = "Get" /\ C10_HasPrefix(rq.path, Bytes("/files/"))
    \/ rq.verb = "Get" /\ rq.path = Bytes("/user-agent")
    \/ rq.verb = "Get" /\ rq.path = Bytes("/")
C10_Unmatched ==
    { Bytes("POST /echo/a HTTP/1.1\r\n\r\n"),
      Bytes("POST /user-agent HTTP/1.1\r\n\r\n"),
      Bytes("POST / HTTP/1.1\r\n\r\n"),
      Bytes("POST /files/x HTTP/1.1\r\n\r\n"),
      Bytes("POST /echo/a HTTP/1.1\r\nContent-Length: 1\r\n\r\na"),
      Bytes("POST / HTTP/1.1\r\nContent-Length: 1\r\n\r\na"),
      Bytes("GET /echo HTTP/1.1\r\n\r\n"),
      Bytes("GET /files HTTP/1.1\r\n\r\n"),
      Bytes("GET /user-agent/x HTTP/1.1\r\n\r\n"),
      Bytes("GET /nope HTTP/1.1\r\n\r\n") }
C10_Unmatched404 ==
    \A c \in Conns :
        Handled(c)
            /\ (\/ conn[c].inbuf \in C10_Unmatched
                \/ Parsed(c).tag = "ok" /\ ~C10_MatchesRoute(Parsed(c).val))
            => conn[c].out = Expect404 /\ conn[c].route = "not_found"

\* C10's case: with a directory configured and a file x there, a POST to
\* /files/x without a body got the 404.
C10_Witness ==
    \E c \in Conns :
        /\ Handled(c) /\ directory.some
        /\ FilePath(Bytes("x")) \in DOMAIN fs
        /\ conn[c].inbuf = Bytes("POST /files/x HTTP/1.1\r\n\r\n")
        /\ conn[c].out = Expect404

\* The places of the headers named User-Agent in the request connection c
\* sent, in arrival order.
UserAgentAt(c) ==
    {i \in 1..Len(Parsed(c).val.headers) :
        Parsed(c).val.headers[i].key = Bytes("User-Agent")}

\* C11: a GET /user-agent is answered 200 OK, text/plain, with the trimmed
\* value of the first header named exactly User-Agent as its body and that
\* value's length as its Content-Length: the response is a function of that
\* value alone, later duplicates and every other header being ignored.
C11_UserAgentFirstValue ==
    \A c \in Conns :
        Handled(c) /\ Parsed(c).tag = "ok"
            /\ Parsed(c).val.verb = "Get" /\ Parsed(c).val.path = Bytes("/user-agent")
            /\ UserAgentAt(c) # {}
            => /\ conn[c].out =
                    Expect200("text/plain",
                              Parsed(c).val.headers[Min(UserAgentAt(c))].value)
               /\ Parsed(c).val.headers[Min(UserAgentAt(c))].value
                    = trim(Parsed(c).val.headers[Min(UserAgentAt(c))].value)

\* C11's case: two User-Agent headers, a then b, answered with a; on another
\* visit the value sent with spaces around it would come back trimmed.
C11_Witness ==
    \E c \in Conns :
        /\ Handled(c)
        /\ conn[c].inbuf =
              Bytes("GET /user-agent HTTP/1.1\r\nUser-Agent: a\r\nUser-Agent: b\r\n\r\n")
        /\ conn[c].out = Expect200("text/plain", Bytes("a"))

\* The place of the last byte of the first line at or after pos that holds
\* no colon: the line that ends the header block.
RECURSIVE BlockEnd(_, _)
BlockEnd(data, pos) ==
    LET nl == {i \in pos..Len(data) : data[i] = "\n"}
        e == IF nl = {} THEN Len(data) ELSE Min(nl)
    IN  IF pos > Len(data) THEN Len(data)
        ELSE IF \E i \in pos..e : data[i] = ":" THEN BlockEnd(data, e + 1)
        ELSE e

\* The place of the last byte of the header terminator of a request.
HeaderEnd(data) ==
    BlockEnd(data, Min({i \in 1..Len(data) : data[i] = "\n"} \cup {Len(data)}) + 1)

\* A decimal number, as a header value: digits, a + before them allowed.
IsNumber(v) ==
    LET ds == IF v # <<>> /\ v[1] = "+" THEN Tail(v) ELSE v
    IN  ds # <<>> /\ \A i \in 1..Len(ds) : ds[i] \in {Digits[k] : k \in 1..10}
NumberOf(v) == DecValue(IF v[1] = "+" THEN Tail(v) ELSE v)

\* The places of the headers named Content-Length in the request of c.
ContentLengthAt(c) ==
    {i \in 1..Len(Parsed(c).val.headers) :
        Parsed(c).val.headers[i].key = Bytes("Content-Length")}

\* C12: a request read with success has a body exactly when its header block
\* holds a Content-Length header, whose value is then a number N (0 gives a
\* present, empty body; no Content-Length gives none, whatever the method),
\* and the body is the N bytes after the header terminator and no more.
C12_BodyIffContentLength ==
    \A c \in Conns :
        Handled(c) /\ Parsed(c).tag = "ok"
            => /\ Parsed(c).val.body.some <=> ContentLengthAt(c) # {}
               /\ Parsed(c).val.body.some
                    => LET v == Parsed(c).val.headers[Min(ContentLengthAt(c))].value
                           from == HeaderEnd(conn[c].inbuf)
                       IN  /\ IsNumber(v)
                           /\ Len(Parsed(c).val.body.val) = NumberOf(v)
                           /\ Parsed(c).val.body.val
                                = SubSeq(conn[c].inbuf, from + 1, from + NumberOf(v))

\* C12's case: Content-Length: 1 followed by aa; the body read is a.
C12_Witness ==
    \E c \in Conns :
        /\ Handled(c)
        /\ conn[c].inbuf = Bytes("POST /files/x HTTP/1.1\r\nContent-Length: 1\r\n\r\naa")
        /\ Parsed(c).tag = "ok" /\ Parsed(c).val.body = Some(Bytes("a"))
        /\ conn[c].out = Bytes("HTTP/1.1 201 Created\r\n\r\n201 Created")
        /\ fs[FilePath(Bytes("x"))].data = Bytes("a")

\* The worker of c, having read a POST /files/<name> with a body while a
\* directory is configured, takes a step that changes at most the file
\* directory/<name>.
WritesOwnFile(c) ==
    /\ conn[c].st \in {"spawned", "created"} /\ conn'[c].st # conn[c].st
    /\ directory.some
    /\ Parsed(c).tag = "ok"
    /\ Parsed(c).val.verb = "Post" /\ Parsed(c).val.body.some
    /\ Len(Parsed(c).val.path) > 7
    /\ SubSeq(Parsed(c).val.path, 1, 7) = Bytes("/files/")
    /\ LET name == SubSeq(Parsed(c).val.path, 8, Len(Parsed(c).val.path))
           file == directory.val \o <<"/">> \o name
       IN  /\ DOMAIN fs' = DOMAIN fs \cup {file}
           /\ fs'[file].kind = "file"
           /\ \A q \in DOMAIN fs \ {file} : fs'[q] = fs[q]

\* C13: the filesystem changes only by the steps of a worker serving a POST
\* /files/<name> that carries a body, and then only at directory/<name>:
\* every other request, and every request whose read fails, leaves every
\* file as it is, and nothing named foo.txt is ever written.
C13_OnlyPostWrites ==
    /\ [][fs' # fs => \E c \in Conns : WritesOwnFile(c)]_vars
    /\ [](\A q \in DOMAIN fs : q # Bytes("foo.txt") /\ Path_parent(q) \in {<<>>, TmpDir})

\* C13's case: a POST /files/x whose stream ended before the two bytes its
\* Content-Length announces has been answered 500, and no file x exists.
C13_Witness ==
    \E c \in Conns :
        /\ Handled(c) /\ directory.some
        /\ conn[c].inbuf = Bytes("POST /files/x HTTP/1.1\r\nContent-Length: 2\r\n\r\na")
        /\ conn[c].out = Expect500
        /\ FilePath(Bytes("x")) \notin DOMAIN fs
        /\ FilePath(Bytes("y")) \in DOMAIN fs

\* First lines that end with HTTP/1.1 CR LF with no space before the version.
NoSpaceBeforeVersion ==
    { Bytes("GET /HTTP/1.1\r\n\r\n"), Bytes("GET /echo/aHTTP/1.1\r\n\r\n") }

\* C14: a first line that ends with HTTP/1.1 CR LF with no space before it
\* is a bad start line: the request is answered 500 and no route arm runs.
C14_VersionNeedsSpace ==
    \A c \in Conns :
        Handled(c) /\ conn[c].inbuf \in NoSpaceBeforeVersion
            => conn[c].out = Expect500 /\ conn[c].route = "none"

\* C15: no header of a request read with success has a name or a value that
\* is empty after trimming, and a request with the header line ": foo", whose
\* name is empty, is answered 500, its read having failed.
C15_NoEmptyHeaderParts ==
    \A c \in Conns :
        Handled(c)
            => /\ Parsed(c).tag = "ok"
                    => \A i \in 1..Len(Parsed(c).val.headers) :
                          /\ trim(Parsed(c).val.headers[i].key) # <<>>
                          /\ trim(Parsed(c).val.headers[i].value) # <<>>
               /\ conn[c].inbuf = Bytes("GET /user-agent HTTP/1.1\r\n: foo\r\n\r\n")
                    => conn[c].out = Expect500 /\ conn[c].route = "none"

\* The lines of the header block of a request that come before the first
\* line with no colon, counted from the line that starts at pos.
RECURSIVE ColonLines(_, _)
ColonLines(data, pos) ==
    LET nl == {i \in pos..Len(data) : data[i] = "\n"}
        e == IF nl = {} THEN Len(data) ELSE Min(nl)
    IN  IF pos > Len(data) THEN 0
        ELSE IF \E i \in pos..e : data[i] = ":" THEN 1 + ColonLines(data, e + 1)
        ELSE 0

\* The lines of a request that come before the first line with no colon.
HeadersBefore(data) ==
    ColonLines(data, Min({i \in 1..Len(data) : data[i] = "\n"} \cup {Len(data)}) + 1)

\* C16: header parsing stops at the first line with no colon, the blank line
\* or a malformed one before it.  The headers recorded are those of the lines
\* before it; what follows it is the body, Content-Length bytes of it, when a
\* Content-Length was recorded, and is otherwise not read, the request being
\* routed with no body.
C16_HeadersStopAtNoColon ==
    \A c \in Conns :
        Handled(c)
            => /\ Parsed(c).tag = "ok"
                    => /\ Len(Parsed(c).val.headers) = HeadersBefore(conn[c].inbuf)
                       /\ conn[c].route # "none"
                       /\ Parsed(c).val.consumed =
                            HeaderEnd(conn[c].inbuf)
                                + (IF Parsed(c).val.body.some
                                   THEN Len(Parsed(c).val.body.val) ELSE 0)
               /\ conn[c].inbuf
                     = Bytes("POST /files/x HTTP/1.1\r\njunk\r\nContent-Length: 1\r\n\r\na")
                    => /\ Parsed(c).tag = "ok"
                       /\ Parsed(c).val.headers = <<>> /\ ~Parsed(c).val.body.some
                       /\ conn[c].out = Expect404
               /\ conn[c].inbuf
                     = Bytes("POST /files/x HTTP/1.1\r\nContent-Length: 1\r\njunk\r\na")
                    => /\ Parsed(c).tag = "ok"
                       /\ Len(Parsed(c).val.headers) = 1
                       /\ Parsed(c).val.body = Some(Bytes("a"))

\* C16's case: a malformed line after Content-Length: 1 ended the header
\* block, the byte after it was the body and is what the file holds.
C16_Witness ==
    \E c \in Conns :
        /\ Handled(c) /\ directory.some
        /\ conn[c].inbuf
              = Bytes("POST /files/x HTTP/1.1\r\nContent-Length: 1\r\njunk\r\na")
        /\ conn[c].out = Bytes("HTTP/1.1 201 Created\r\n\r\n201 Created")
        /\ fs[FilePath(Bytes("x"))].data = Bytes("a")

\* Requests whose stream ends before the blank line that would end the
\* header block: in the middle of a header line, and after a whole one.
EndsInHeaders ==
    { Bytes("GET /user-agent HTTP/1.1\r\nUser-Agent: foo"),
      Bytes("GET /user-agent HTTP/1.1\r\nUser-Agent: foo\r\n"),
      Bytes("GET / HTTP/1.1\r\nHost: x") }

\* C17: a request whose stream ends before a whole line of the start line or
\* of the header block, the blank line included, or before the bytes its
\* Content-Length announces, is answered 500 and reaches no route arm.
C17_TruncatedIs500 ==
    \A c \in Conns :
        Handled(c) /\ conn[c].eof
            /\ (\/ conn[c].inbuf \in EndsInHeaders
                \/ conn[c].inbuf = Bytes("GET / HT")
                \/ conn[c].inbuf
                     = Bytes("POST /files/x HTTP/1.1\r\nContent-Length: 2\r\n\r\na"))
            => conn[c].out = Expect500 /\ conn[c].route = "none"

\* No worker is between the File::create of a POST and its response.
NoPostInFlight == \A c \in Conns : conn[c].st \notin {"created", "respond"}

\* C18: POST /files/<name> truncates.  Between POSTs that do not overlap,
\* each file posted to holds exactly the body of the latest POST to its name
\* answered 201, whatever was posted to it or to another name before: the
\* File::create of a POST leaves the file empty, so no byte of an earlier,
\* longer body stays.
C18_PostTruncates ==
    /\ [](NoPostInFlight /\ directory.some
            => \A n \in FileNames :
                  FilePath(n) \in DOMAIN posted
                      => /\ FilePath(n) \in DOMAIN fs
                         /\ fs[FilePath(n)] = [kind |-> "file", data |-> posted[FilePath(n)]])
    /\ [][\A c \in Conns :
            conn[c].st = "spawned" /\ conn'[c].st = "created"
                => fs'[conn'[c].path] = [kind |-> "file", data |-> <<>>]]_vars

\* C18's case: the file x held the two bytes of an earlier POST, and the
\* File::create of a POST of one byte has left it empty.
C18_Witness ==
    \E c \in Conns :
        /\ conn[c].st = "created" /\ conn[c].path = FilePath(Bytes("x"))
        /\ conn[c].body = Bytes("a")
        /\ FilePath(Bytes("x")) \in DOMAIN posted
        /\ posted[FilePath(Bytes("x"))] = Bytes("aa")
        /\ FilePath(Bytes("y")) \in DOMAIN posted
        /\ fs[FilePath(Bytes("x"))].data = <<>>

\* The two POSTs to x of the concurrent clients.
PostLong == PostRequest(Bytes("x"), Bytes("aa"))
PostShort == PostRequest(Bytes("x"), <<"0xFF">>)

\* C19: POSTs to one name are not serialized.  The File::create of a worker
\* can come between the File::create and the write of another, and the write
\* of a worker lays its body over the start of what the file holds by then,
\* leaving the bytes past its length: the file can end up with bytes of both
\* bodies, equal to neither.
C19_WritesInterleave ==
    [][\A c \in Conns :
          conn[c].st = "created" /\ conn'[c].st = "respond"
              => LET old == fs[conn[c].path].data
                 IN  fs'[conn[c].path].data
                        = conn[c].body \o SubSeq(old, Len(conn[c].body) + 1, Len(old))]_vars

\* C19's case: both POSTs to x have been answered 201 Created, and the file
\* holds the byte of the shorter body followed by the second byte of the
\* longer one.
C19_Witness ==
    \E c, d \in Conns :
        /\ Handled(c) /\ Handled(d)
        /\ conn[c].inbuf = PostLong /\ conn[d].inbuf = PostShort
        /\ conn[c].out = Bytes("HTTP/1.1 201 Created\r\n\r\n201 Created")
        /\ conn[d].out = Bytes("HTTP/1.1 201 Created\r\n\r\n201 Created")
        /\ fs[FilePath(Bytes("x"))].data = <<"0xFF", "a">>
        /\ fs[FilePath(Bytes("x"))].data \notin {Bytes("aa"), <<"0xFF">>}

\* C20: the 201 Created of a POST /files/<name> is written only once the
\* file exists and holds the whole body; so, no other POST to the name being
\* sent, from the 201 on the file is whole, and every GET /files/<name> a
\* worker handles from then on, a GET sent after the 201 among them, is
\* answered 200 OK with the whole body, whichever worker handles it.
C20_GetAfter201SeesBody ==
    /\ [](Bytes("/tmp/x") \in DOMAIN posted
            => /\ Bytes("/tmp/x") \in DOMAIN fs
               /\ fs[Bytes("/tmp/x")] = [kind |-> "file", data |-> Bytes("aa")])
    /\ [][\A c \in Conns :
            /\ conn[c].st = "respond" /\ conn'[c].st = "closed"
                /\ conn[c].route = "post_files" /\ conn'[c].out # <<>>
                => /\ conn'[c].out = Bytes("HTTP/1.1 201 Created\r\n\r\n201 Created")
                   /\ fs[conn[c].path].data = conn[c].body
            /\ conn[c].st = "spawned" /\ conn'[c].st # "spawned"
                /\ conn[c].inbuf = GetFileRequest(Bytes("x"))
                /\ Bytes("/tmp/x") \in DOMAIN posted
                => /\ conn'[c].st = "respond" /\ conn'[c].result = "ok"
                   /\ conn'[c].resp
                        = Expect200("application/octet-stream", Bytes("aa"))]_vars

\* C20's case: the POST has been answered 201 Created on one connection and
\* a GET on another 200 OK with the two bytes, while a third client stalls.
C20_Witness ==
    \E c, d \in Conns :
        /\ Handled(c) /\ conn[c].inbuf = PostRequest(Bytes("x"), Bytes("aa"))
        /\ conn[c].out = Bytes("HTTP/1.1 201 Created\r\n\r\n201 Created")
        /\ Handled(d) /\ conn[d].inbuf = GetFileRequest(Bytes("x"))
        /\ conn[d].out = Expect200("application/octet-stream", Bytes("aa"))


====
